---- MODULE Spec2Model ----
(***************************************************************************)
(* Ford-Fulkerson (shortest augmenting path) maximum flow and minimum s-t  *)
(* cut of maxflow_mincut.cc: the residual graph, bfs in its two modes, the *)
(* augmentation loop of fordFulkerson and findMinCut.                      *)
(***************************************************************************)
EXTENDS Integers, Sequences, FiniteSets, TLC

SOURCE_NODE_ID == 0
TARGET_NODE_ID == 5
NODE_COUNT == 6
INVALID_PARENT == -1
INT_MAX == 2147483647

\* Largest capacity of an enumerated input edge.
MaxCap == 1
\* Magnitude of the negative capacities of the invalid inputs.
MaxNeg == 1

Nodes == 0 .. (NODE_COUNT - 1)

VARIABLES graph, augmentingPath, max_flow, min_flow_in_path, sPath, tPath,
          out_s, out_t, cut_msg, pc, build_pos

vars == <<graph, augmentingPath, max_flow, min_flow_in_path, sPath, tPath,
          out_s, out_t, cut_msg, pc, build_pos>>

(***************************************************************************)
(* residualGraphEdge and the graph container built by main.                *)
(***************************************************************************)
residualGraphEdge(residual_capacity, original_capacity) ==
    [residual_capacity_ |-> residual_capacity,
     original_capacity_ |-> original_capacity]

getResidualCapacity(g, u, v) == g[u][v].residual_capacity_
getOriginalCapacity(g, u, v) == g[u][v].original_capacity_

setResidualCapacity(g, u, v, c) ==
    [g EXCEPT ![u][v].residual_capacity_ = c]

setOriginalCapacity(g, u, v, c) ==
    [g EXCEPT ![u][v].original_capacity_ = c]

\* main, lines 269-293: each input edge (a pair with a capacity other than 0
\* in cap) gets its residual capacity and then its original capacity set to
\* its capacity; the other pairs are left as they are.
SetCapacities(g, cap) ==
    [u \in Nodes |-> [v \in Nodes |->
        IF cap[u][v] # 0
        THEN setOriginalCapacity(setResidualCapacity(g, u, v, cap[u][v]),
                                 u, v, cap[u][v])[u][v]
        ELSE g[u][v]]]

\* The capacities hard coded in main.
MainCapacity ==
    [u \in Nodes |-> [v \in Nodes |->
        CASE u = 0 /\ v = 1 -> 4
          [] u = 0 /\ v = 2 -> 7
          [] u = 0 /\ v = 3 -> 10
          [] u = 1 /\ v = 4 -> 2
          [] u = 1 /\ v = 5 -> 10
          [] u = 2 /\ v = 1 -> 2
          [] u = 2 /\ v = 3 -> 2
          [] u = 2 /\ v = 4 -> 10
          [] u = 3 /\ v = 4 -> 2
          [] u = 3 /\ v = 5 -> 6
          [] u = 4 /\ v = 5 -> 7
          [] OTHER -> 0]]

\* The ordered pairs that carry an edge in the enumerated input graphs, in
\* the order in which their capacities are set; the pairs (1,3) and (3,1) are
\* both present, so that inputs with capacity in both directions of a pair
\* are covered.
InputPairs ==
    <<<<0, 1>>, <<0, 2>>, <<1, 3>>, <<3, 1>>, <<2, 3>>, <<1, 4>>, <<3, 5>>,
      <<4, 5>>>>

(***************************************************************************)
(* bfs, lines 78-131.                                                      *)
(***************************************************************************)
\* F applied to the value of x: x is evaluated once, whatever number of times
\* F uses its argument.
Strict(F(_), x) == CHOOSE r \in {F(v) : v \in {x}} : TRUE

\* ScanNeighbours with the test of line 97 written >= 0: a pair without
\* residual capacity counts as an edge.
RECURSIVE ScanNeighbours_ZeroCapacity(_, _, _, _, _)
ScanNeighbours_ZeroCapacity(g, node_id, next_node, st0, track) ==
    Strict(LAMBDA st :
        IF next_node >= NODE_COUNT THEN st
        ELSE IF ~st.trav[next_node]
                    /\ getResidualCapacity(g, node_id, next_node) >= 0
             THEN ScanNeighbours_ZeroCapacity(g, node_id, next_node + 1,
                      [trav |-> [st.trav EXCEPT ![next_node] = TRUE],
                       parent |-> IF track
                                  THEN [st.parent EXCEPT ![next_node] = node_id]
                                  ELSE st.parent,
                       bfs_q |-> Append(st.bfs_q, next_node)],
                      track)
             ELSE ScanNeighbours_ZeroCapacity(g, node_id, next_node + 1, st, track),
        st0)

\* ScanNeighbours that records a parent only for a node that has none yet, so
\* that a parent left by an earlier bfs call stays.
RECURSIVE ScanNeighbours_KeepParent(_, _, _, _, _)
ScanNeighbours_KeepParent(g, node_id, next_node, st0, track) ==
    Strict(LAMBDA st :
        IF next_node >= NODE_COUNT THEN st
        ELSE IF ~st.trav[next_node]
                    /\ getResidualCapacity(g, node_id, next_node) > 0
             THEN ScanNeighbours_KeepParent(g, node_id, next_node + 1,
                      [trav |-> [st.trav EXCEPT ![next_node] = TRUE],
                       parent |-> IF track /\ st.parent[next_node] = INVALID_PARENT
                                  THEN [st.parent EXCEPT ![next_node] = node_id]
                                  ELSE st.parent,
                       bfs_q |-> Append(st.bfs_q, next_node)],
                      track)
             ELSE ScanNeighbours_KeepParent(g, node_id, next_node + 1, st, track),
        st0)

\* The inner for loop (lines 96-109) from next_node on, for the dequeued node
\* node_id: st is the triple of trav, the parents and the queue.
RECURSIVE ScanNeighbours(_, _, _, _, _)
ScanNeighbours(g, node_id, next_node, st0, track) ==
    Strict(LAMBDA st :
        IF next_node >= NODE_COUNT THEN st
        ELSE IF ~st.trav[next_node]
                    /\ getResidualCapacity(g, node_id, next_node) > 0
             THEN ScanNeighbours(g, node_id, next_node + 1,
                      [trav |-> [st.trav EXCEPT ![next_node] = TRUE],
                       parent |-> IF track
                                  THEN [st.parent EXCEPT ![next_node] = node_id]
                                  ELSE st.parent,
                       bfs_q |-> Append(st.bfs_q, next_node)],
                      track)
             ELSE ScanNeighbours(g, node_id, next_node + 1, st, track),
        st0)

\* The while loop over the queue (lines 93-111).
RECURSIVE BfsLoop(_, _, _)
BfsLoop(g, st0, track) ==
    Strict(LAMBDA st :
        IF st.bfs_q = <<>> THEN st
        ELSE BfsLoop(g,
                     ScanNeighbours(g, Head(st.bfs_q), 0,
                                    [st EXCEPT !.bfs_q = Tail(st.bfs_q)], track),
                     track),
        st0)

\* bfs(graph, sPath, tPath, outPath): track says whether outPath was given,
\* parent is the buffer outPath points to. The result carries trav and the
\* parents as the call leaves them.
bfs(g, parent, track) ==
    BfsLoop(g,
            [trav |-> [n \in Nodes |-> n = SOURCE_NODE_ID],
             parent |-> parent,
             bfs_q |-> <<SOURCE_NODE_ID>>],
            track)

\* Lines 119-128: the nodes in increasing id that have trav = b.
RECURSIVE Partition(_, _, _)
Partition(trav, b, i) ==
    IF i >= NODE_COUNT THEN <<>>
    ELSE IF trav[i] = b THEN <<i>> \o Partition(trav, b, i + 1)
         ELSE Partition(trav, b, i + 1)

(***************************************************************************)
(* fordFulkerson, lines 141-211.                                           *)
(***************************************************************************)
\* The walk of lines 163-169 and 173-188 from node_id back to the source:
\* the nodes visited, sink first. The walk reads the parent of every node it
\* visits; it stops with ok = FALSE when that parent is INVALID_PARENT (the
\* graph would be indexed at -1) or after more than NODE_COUNT steps (the
\* chain has a cycle and the loop does not end).
RECURSIVE ParentChain(_, _, _)
ParentChain(parent, node_id, steps) ==
    IF node_id = SOURCE_NODE_ID THEN [ok |-> TRUE, nodes |-> <<>>]
    ELSE IF parent[node_id] = INVALID_PARENT \/ steps >= NODE_COUNT
         THEN [ok |-> FALSE, nodes |-> <<node_id>>]
         ELSE Strict(LAMBDA rest :
                         [ok |-> rest.ok, nodes |-> <<node_id>> \o rest.nodes],
                     ParentChain(parent, parent[node_id], steps + 1))

\* Bottleneck without the comparison of line 165: the residual capacity read
\* last replaces the minimum.
RECURSIVE Bottleneck_NoCompare(_, _, _, _)
Bottleneck_NoCompare(g, parent, chain, min_flow0) ==
    Strict(LAMBDA min_flow :
        IF chain = <<>> THEN min_flow
        ELSE Bottleneck_NoCompare(g, parent, Tail(chain),
                 getResidualCapacity(g, parent[Head(chain)], Head(chain))),
        min_flow0)

\* Lines 156-169: the minimum residual capacity on the chain, starting from
\* min_flow.
RECURSIVE Bottleneck(_, _, _, _)
Bottleneck(g, parent, chain, min_flow0) ==
    Strict(LAMBDA min_flow :
        IF chain = <<>> THEN min_flow
        ELSE Bottleneck(g, parent, Tail(chain),
                 IF min_flow > getResidualCapacity(g, parent[Head(chain)], Head(chain))
                 THEN getResidualCapacity(g, parent[Head(chain)], Head(chain))
                 ELSE min_flow),
        min_flow0)

\* UpdateResiduals without lines 184-186: the reverse pair is left alone.
RECURSIVE UpdateResiduals_NoBackEdge(_, _, _, _)
UpdateResiduals_NoBackEdge(g0, parent, chain, delta) ==
    Strict(LAMBDA g :
        IF chain = <<>> THEN g
        ELSE UpdateResiduals_NoBackEdge(
                 setResidualCapacity(g, parent[Head(chain)], Head(chain),
                     getResidualCapacity(g, parent[Head(chain)], Head(chain))
                         - delta),
                 parent, Tail(chain), delta),
        g0)

\* Lines 173-188: the residual updates along the chain.
RECURSIVE UpdateResiduals(_, _, _, _)
UpdateResiduals(g0, parent, chain, delta) ==
    Strict(LAMBDA g :
        IF chain = <<>> THEN g
        ELSE UpdateResiduals(
                 Strict(LAMBDA g1 :
                     setResidualCapacity(g1, Head(chain), parent[Head(chain)],
                         getResidualCapacity(g1, Head(chain), parent[Head(chain)])
                             + delta),
                     setResidualCapacity(g, parent[Head(chain)], Head(chain),
                         getResidualCapacity(g, parent[Head(chain)], Head(chain))
                             - delta)),
                 parent, Tail(chain), delta),
        g0)

\* ResetParents that resets the parent of the sink only.
ResetParents_SinkOnly(parent, chain) ==
    [parent EXCEPT ![TARGET_NODE_ID] = INVALID_PARENT]

\* Line 175: the parent of every node of the chain is set to INVALID_PARENT.
ResetParents(parent, chain) ==
    [n \in Nodes |->
        IF \E i \in 1 .. Len(chain) : chain[i] = n THEN INVALID_PARENT
        ELSE parent[n]]

\* Lines 198-208: the flow reported for the pair (u,v).
edgeFlow(g, u, v) == getOriginalCapacity(g, u, v) - getResidualCapacity(g, u, v)

\* main, lines 256-263: every pair is created as (0,0).
Init ==
    /\ graph = [u \in Nodes |-> [v \in Nodes |-> residualGraphEdge(0, 0)]]
    /\ augmentingPath = [n \in Nodes |-> INVALID_PARENT]
    /\ max_flow = 0
    /\ min_flow_in_path = 0
    /\ sPath = <<>>
    /\ tPath = <<>>
    /\ out_s = <<>>
    /\ out_t = <<>>
    /\ cut_msg = "none"
    /\ pc = "build"
    /\ build_pos = 1

\* main, lines 269-293: the capacities hard coded in main are set.
mainSetCapacities ==
    /\ pc = "build"
    /\ build_pos = 1
    /\ graph' = SetCapacities(graph, MainCapacity)
    /\ pc' = "main"
    /\ build_pos' = Len(InputPairs) + 1
    /\ UNCHANGED <<augmentingPath, max_flow, min_flow_in_path, sPath, tPath,
                   out_s, out_t, cut_msg>>

\* The same construction for another input graph: the next pair of InputPairs
\* gets a capacity from lowest .. MaxCap as its residual and its original
\* capacity, as lines 269 and 283 do for s->w.
setCapacity(lowest) ==
    /\ pc = "build"
    /\ build_pos <= Len(InputPairs)
    /\ \E c \in lowest .. MaxCap :
          graph' = setOriginalCapacity(
                       setResidualCapacity(graph, InputPairs[build_pos][1],
                                           InputPairs[build_pos][2], c),
                       InputPairs[build_pos][1], InputPairs[build_pos][2], c)
    /\ build_pos' = build_pos + 1
    /\ pc' = IF build_pos = Len(InputPairs) THEN "main" ELSE "build"
    /\ UNCHANGED <<augmentingPath, max_flow, min_flow_in_path, sPath, tPath,
                   out_s, out_t, cut_msg>>

\* Input graphs with non-negative capacities.
inputSetCapacity == setCapacity(0)

\* Input graphs in which capacities may be negative.
inputSetNegativeCapacity == setCapacity(-MaxNeg)

\* main calls fordFulkerson (line 297); lines 145-151.
fordFulkersonEnter ==
    /\ pc = "main"
    /\ augmentingPath' = [n \in Nodes |-> INVALID_PARENT]
    /\ max_flow' = 0
    /\ pc' = "ff_while"
    /\ UNCHANGED <<graph, min_flow_in_path, sPath, tPath, out_s, out_t, cut_msg,
                   build_pos>>

\* The loop condition of line 154: bfs in parent-tracking mode. When it is
\* false the function prints the flows and returns max_flow (lines 197-210).
fordFulkersonWhile ==
    /\ pc = "ff_while"
    /\ LET r == bfs(graph, augmentingPath, TRUE)
       IN  /\ augmentingPath' = r.parent
           /\ pc' = IF r.trav[TARGET_NODE_ID] THEN "ff_body" ELSE "ff_done"
    /\ UNCHANGED <<graph, max_flow, min_flow_in_path, sPath, tPath, out_s,
                   out_t, cut_msg, build_pos>>

\* The loop body, lines 156-188.
fordFulkersonBody ==
    /\ pc = "ff_body"
    /\ LET c == ParentChain(augmentingPath, TARGET_NODE_ID, 0)
       IN  IF c.ok
           THEN LET delta == Bottleneck(graph, augmentingPath, c.nodes, INT_MAX)
                IN  /\ min_flow_in_path' = delta
                    /\ max_flow' = max_flow + delta
                    /\ graph' = UpdateResiduals(graph, augmentingPath, c.nodes, delta)
                    /\ augmentingPath' = ResetParents(augmentingPath, c.nodes)
                    /\ pc' = "ff_while"
           ELSE /\ pc' = "undefined"
                /\ UNCHANGED <<graph, augmentingPath, max_flow, min_flow_in_path>>
    /\ UNCHANGED <<sPath, tPath, out_s, out_t, cut_msg, build_pos>>

\* findMinCut without the test of line 224: the partition is printed whatever
\* bfs returned.
findMinCutCall_AlwaysPrint(from, to) ==
    /\ pc = from
    /\ LET r == bfs(graph, augmentingPath, FALSE)
       IN  /\ sPath' = Partition(r.trav, TRUE, 0)
           /\ tPath' = Partition(r.trav, FALSE, 0)
           /\ cut_msg' = "cut"
           /\ out_s' = sPath'
           /\ out_t' = tPath'
    /\ pc' = to
    /\ UNCHANGED <<graph, augmentingPath, max_flow, min_flow_in_path, build_pos>>

\* findMinCut, lines 220-240, called in state from and returning to state to.
findMinCutCall(from, to) ==
    /\ pc = from
    /\ LET r == bfs(graph, augmentingPath, FALSE)
       IN  /\ sPath' = Partition(r.trav, TRUE, 0)
           /\ tPath' = Partition(r.trav, FALSE, 0)
           /\ IF r.trav[TARGET_NODE_ID]
              THEN /\ cut_msg' = "failed"
                   /\ out_s' = <<>>
                   /\ out_t' = <<>>
              ELSE /\ cut_msg' = "cut"
                   /\ out_s' = sPath'
                   /\ out_t' = tPath'
    /\ pc' = to
    /\ UNCHANGED <<graph, augmentingPath, max_flow, min_flow_in_path, build_pos>>

\* main, line 304: findMinCut after fordFulkerson has returned.
findMinCut == findMinCutCall("ff_done", "exit")

Next ==
    mainSetCapacities \/ inputSetCapacity \/ fordFulkersonEnter
        \/ fordFulkersonWhile \/ fordFulkersonBody \/ findMinCut

Spec == Init /\ [][Next]_vars

\* A caller that also calls findMinCut on the graph as built, before
\* fordFulkerson has run.
findMinCutEarly == findMinCutCall("main", "main")

NextCaller == Next \/ findMinCutEarly

SpecCaller == Init /\ [][NextCaller]_vars

\* The program runs on one thread and never waits: a step that is possible
\* is taken.
LiveSpec == Init /\ [][Next]_vars /\ WF_vars(Next)

\* The same program on input graphs that may have negative capacities.
NextNeg ==
    inputSetNegativeCapacity \/ fordFulkersonEnter \/ fordFulkersonWhile
        \/ fordFulkersonBody \/ findMinCut

SpecNeg == Init /\ [][NextNeg]_vars

(***************************************************************************)
(* Auxiliary definitions of the properties.                                *)
(***************************************************************************)
Range(s) == {s[i] : i \in 1 .. Len(s)}

RECURSIVE SumCapacity(_, _)
SumCapacity(g, P) ==
    IF P = {} THEN 0
    ELSE LET p == CHOOSE x \in P : TRUE
         IN  getOriginalCapacity(g, p[1], p[2]) + SumCapacity(g, P \ {p})

RECURSIVE SumFlow(_, _)
SumFlow(g, P) ==
    IF P = {} THEN 0
    ELSE LET p == CHOOSE x \in P : TRUE
         IN  edgeFlow(g, p[1], p[2]) + SumFlow(g, P \ {p})

\* Sum of the original capacities of the pairs from S to T.
CutValue(g, S, T) == SumCapacity(g, S \X T)

InputEdges(g) == {p \in Nodes \X Nodes : getOriginalCapacity(g, p[1], p[2]) > 0}
InFlow(g, v) == SumFlow(g, {p \in InputEdges(g) : p[2] = v})
OutFlow(g, v) == SumFlow(g, {p \in InputEdges(g) : p[1] = v})

\* The nodes reachable from R through pairs of positive residual capacity.
RECURSIVE ReachableFrom(_, _)
ReachableFrom(g, R) ==
    LET R2 == R \cup {v \in Nodes : \E u \in R : getResidualCapacity(g, u, v) > 0}
    IN  IF R2 = R THEN R ELSE ReachableFrom(g, R2)

SinkReachable(g) == TARGET_NODE_ID \in ReachableFrom(g, {SOURCE_NODE_ID})

IsMainGraph ==
    \A u, v \in Nodes : getOriginalCapacity(graph, u, v) = MainCapacity[u][v]

HasAntiparallel ==
    \E u, v \in Nodes : /\ getOriginalCapacity(graph, u, v) > 0
                        /\ getOriginalCapacity(graph, v, u) > 0

HasNegative == \E u, v \in Nodes : getOriginalCapacity(graph, u, v) < 0

Returned == pc \in {"ff_done", "exit"}

Chain == ParentChain(augmentingPath, TARGET_NODE_ID, 0)

(***************************************************************************)
(* Properties.                                                             *)
(***************************************************************************)
\* C1 as stated: on the six-node network of main, fordFulkerson returns 14
\* and the cut findMinCut prints afterwards has value 14.
C1_MainScenario14 ==
    (IsMainGraph /\ pc = "exit") =>
        /\ max_flow = 14
        /\ cut_msg = "cut"
        /\ CutValue(graph, Range(out_s), Range(out_t)) = 14

\* C1 amended: on the six-node network of main, fordFulkerson returns 19 and
\* the cut findMinCut prints afterwards has value 19.
C1_MainScenario ==
    /\ (IsMainGraph /\ Returned) => max_flow = 19
    /\ (IsMainGraph /\ pc = "exit") =>
          /\ cut_msg = "cut"
          /\ CutValue(graph, Range(out_s), Range(out_t)) = 19

C1_Witness == IsMainGraph /\ pc = "exit" /\ cut_msg = "cut"

\* C2: for every input graph with non-negative capacities, the value
\* fordFulkerson returned equals the sum of the original capacities of the
\* pairs from the source side to the sink side that bfs produced in
\* findMinCut.
C2_Duality ==
    pc = "exit" =>
        /\ cut_msg = "cut"
        /\ Range(sPath) \cup Range(tPath) = Nodes
        /\ Range(sPath) \cap Range(tPath) = {}
        /\ SOURCE_NODE_ID \in Range(sPath)
        /\ TARGET_NODE_ID \in Range(tPath)
        /\ max_flow = SumCapacity(graph, Range(sPath) \X Range(tPath))

\* A finished run on an enumerated input with a positive flow, a source side
\* of several nodes and an input edge from the sink side back to the source
\* side, which the cut value does not count.
C2_Witness ==
    /\ pc = "exit"
    /\ ~IsMainGraph
    /\ max_flow >= 1
    /\ Len(sPath) >= 2
    /\ \E u \in Range(tPath), v \in Range(sPath) :
          getOriginalCapacity(graph, u, v) > 0

\* C3: once fordFulkerson has finished, every input edge (u,v) has
\* 0 <= edgeFlow(u,v) <= originalCapacity(u,v), also in graphs with capacity
\* in both directions of a pair.
C3_CapacityRespect ==
    Returned =>
        \A u, v \in Nodes :
            getOriginalCapacity(graph, u, v) > 0 =>
                /\ 0 <= edgeFlow(graph, u, v)
                /\ edgeFlow(graph, u, v) <= getOriginalCapacity(graph, u, v)

\* C4: once fordFulkerson has finished, at every node other than the source
\* and the sink the edgeFlow of the entering input edges sums to the edgeFlow
\* of the leaving input edges.
C4_FlowConservation ==
    Returned =>
        \A v \in Nodes \ {SOURCE_NODE_ID, TARGET_NODE_ID} :
            InFlow(graph, v) = OutFlow(graph, v)

\* C5: the augmentation loop ends, and every iteration finds a strictly
\* positive bottleneck and strictly increases the accumulated flow.
C5_Termination ==
    /\ <>Returned
    /\ [][pc = "ff_body" =>
            /\ pc' = "ff_while"
            /\ min_flow_in_path' > 0
            /\ max_flow' = max_flow + min_flow_in_path'
            /\ max_flow' > max_flow]_vars

C5_Witness == pc = "ff_done" /\ max_flow >= 2 /\ ~IsMainGraph

\* C6: a call of findMinCut on a graph whose sink is still reachable through
\* positive residual capacities reports the failure and prints no partition;
\* a partition is printed only when the sink is unreachable.
C6_CutPrecondition ==
    [][(findMinCut \/ findMinCutEarly) =>
          /\ SinkReachable(graph) =>
                (cut_msg' = "failed" /\ out_s' = <<>> /\ out_t' = <<>>)
          /\ ~SinkReachable(graph) =>
                /\ cut_msg' = "cut"
                /\ Range(out_s') = ReachableFrom(graph, {SOURCE_NODE_ID})
                /\ Range(out_t') = Nodes \ ReachableFrom(graph, {SOURCE_NODE_ID})]_vars

C6_Witness == cut_msg = "failed" /\ pc = "main" /\ Len(sPath) >= 3

\* C7: with a negative capacity in the input the computation fails instead
\* of running the augmentation loop and returning a flow value.
C7_FailFast == HasNegative => pc \notin {"ff_body", "ff_done", "exit"}

\* C8: for every ordered pair (u,v) the residual capacity of (v,u) is
\* (c - r) + r0, with c and r the original and the residual capacity of
\* (u,v) and r0 the initial residual capacity of (v,u), which main sets to
\* the original capacity of (v,u).
C8_PairedResidual ==
    \A u, v \in Nodes :
        getResidualCapacity(graph, v, u) =
            (getOriginalCapacity(graph, u, v) - getResidualCapacity(graph, u, v))
                + getOriginalCapacity(graph, v, u)

C8_Witness ==
    /\ pc = "ff_while"
    /\ max_flow > 0
    /\ \E u, v \in Nodes :
          /\ getOriginalCapacity(graph, u, v) > 0
          /\ getOriginalCapacity(graph, v, u) > 0
          /\ getResidualCapacity(graph, u, v) > getOriginalCapacity(graph, u, v)

\* C9 as stated: after every augmentation all parents are INVALID_PARENT, so
\* that every bfs of the loop starts from a buffer without parents.
C9_AllParentsReset ==
    pc = "ff_while" => \A n \in Nodes : augmentingPath[n] = INVALID_PARENT

\* C9 amended: an augmentation resets the parent of the nodes of the path it
\* consumed and of no other node.
C9_PathParentsReset ==
    [][pc = "ff_body" =>
          \A n \in Nodes :
              augmentingPath'[n] =
                  IF n \in Range(Chain.nodes) THEN INVALID_PARENT
                  ELSE augmentingPath[n]]_vars

\* After an augmentation, a node off the consumed path still has its parent.
C9_Witness ==
    /\ pc = "ff_while"
    /\ max_flow > 0
    /\ augmentingPath[TARGET_NODE_ID] = INVALID_PARENT
    /\ \E n \in Nodes : augmentingPath[n] # INVALID_PARENT

\* C10: whenever bfs returned true in the loop, the parent chain from the
\* sink reaches the source in at most NODE_COUNT - 1 steps, reads no
\* INVALID_PARENT, repeats no node and runs over pairs of positive residual
\* capacity.
C10_ParentChainSafety ==
    /\ pc # "undefined"
    /\ pc = "ff_body" =>
          /\ Chain.ok
          /\ Len(Chain.nodes) <= NODE_COUNT - 1
          /\ Cardinality(Range(Chain.nodes)) = Len(Chain.nodes)
          /\ SOURCE_NODE_ID \notin Range(Chain.nodes)
          /\ \A n \in Range(Chain.nodes) :
                /\ augmentingPath[n] \in Nodes
                /\ getResidualCapacity(graph, augmentingPath[n], n) > 0

\* An iteration after the first whose path has five edges.
C10_Witness ==
    /\ pc = "ff_body"
    /\ max_flow > 0
    /\ Chain.ok
    /\ Len(Chain.nodes) = NODE_COUNT - 1

====
